---- MODULE Spec2Model ----
(***************************************************************************)
(* Deutsch-Jozsa algorithm of djalgorithm.py: the two oracle builders, the *)
(* circuit constructed around an oracle, its ideal execution and the       *)
(* decision rule of DJAlgorithm.simulate.                                  *)
(*                                                                         *)
(* Wires and classical bits are numbered from 0 as in the source.  A gate  *)
(* or instruction is a record [name, qubits, clbits, definition]; the      *)
(* definition of a primitive gate is the empty sequence.  A bit string is  *)
(* a sequence of the one-character strings "0" and "1".                    *)
(***************************************************************************)
EXTENDS Integers, Sequences, FiniteSets, TLC

VARIABLES
    pc,             \* position of the script: start, oracle, done, failed, exit1,
                    \* and classify / classified for the decision rule alone
    inputs_count,   \* the number typed at the first prompt
    oracle_type,    \* the token typed at the second prompt, lower-cased
    random_number,  \* the draw of the oracle builder (mask or coin)
    inputs,         \* the binary encoding of the mask (balanced oracle only)
    oracle_block,   \* the Instruction handed to simulate
    circuit,        \* the circuit built by _construct_the_circuit
    answer,         \* results.get_counts(): bit string -> count
    result          \* the verdict

vars == <<pc, inputs_count, oracle_type, random_number, inputs, oracle_block,
          circuit, answer, result>>

\* Largest number of input qubits typed at the prompt.
MaxN == 4
\* Number of executions (shots) of one backend run.
Shots == 2
\* Largest number of distinct keys of an arbitrary outcome distribution.
MaxKeys == 2

----------------------------------------------------------------------------
(* Arithmetic and strings *)

RECURSIVE Pow2(_)
Pow2(k) == IF k <= 0 THEN 1 ELSE 2 * Pow2(k - 1)

\* range(k) as a sequence: <<0, ..., k-1>>
Range(k) == [i \in 1..k |-> i - 1]

\* reversed(s)
Reversed(s) == [i \in 1..Len(s) |-> s[Len(s) + 1 - i]]

\* "0" * k
Zeros(k) == [i \in 1..k |-> "0"]

\* binary digits of r >= 0, most significant first, without padding ("0" for 0)
RECURSIVE Bin(_)
Bin(r) == IF r < 2 THEN <<(IF r = 1 THEN "1" ELSE "0")>>
          ELSE Append(Bin(r \div 2), (IF r % 2 = 1 THEN "1" ELSE "0"))

\* format(r, "0" + str(width) + "b"): zero-padded on the left to at least
\* `width` characters, never truncated
Format(r, width) ==
    LET digits == Bin(r)
    IN  IF Len(digits) >= width THEN digits
        ELSE Zeros(width - Len(digits)) \o digits

\* np.random.randint(low, high): the integers of [low, high); empty when
\* low >= high, where numpy raises ValueError
Randint(low, high) == {r \in low..(high - 1) : TRUE}

----------------------------------------------------------------------------
(* Gates, instructions and circuits *)

Gate(name, qubits, clbits) ==
    [name |-> name, qubits |-> qubits, clbits |-> clbits, definition |-> <<>>]

QuantumCircuit(nq, nc) == [num_qubits |-> nq, num_clbits |-> nc, data |-> <<>>]

\* circuit.append / circuit.x / circuit.cx ...: one more operation at the end
AppendOp(c, op) == [c EXCEPT !.data = Append(@, op)]

\* to_instruction() followed by the assignment of the name
ToInstruction(c, name) ==
    [name |-> name, num_qubits |-> c.num_qubits, num_clbits |-> c.num_clbits,
     definition |-> c.data]

NoInstruction == [name |-> "None", num_qubits |-> 0, num_clbits |-> 0,
                  definition |-> <<>>]

----------------------------------------------------------------------------
(* Oracle builders *)

\* faulty variant of XLoop: enumerate(inputs), without reversed
XLoopUnreversed(s) ==
    LET idxs == SelectSeq(Range(Len(s)), LAMBDA index : s[index + 1] = "1")
    IN  [k \in 1..Len(idxs) |-> Gate("x", <<idxs[k]>>, <<>>)]

\* for index, qubit in enumerate(reversed(inputs)): if qubit == "1": oracle.x(index)
XLoop(s) ==
    LET r    == Reversed(s)
        idxs == SelectSeq(Range(Len(r)), LAMBDA index : r[index + 1] = "1")
    IN  [k \in 1..Len(idxs) |-> Gate("x", <<idxs[k]>>, <<>>)]

\* faulty variant of CXLoop: control and target exchanged
CXLoopSwapped(s, n) == [k \in 1..Len(s) |-> Gate("cx", <<n, k - 1>>, <<>>)]

\* for index, qubit in enumerate(inputs): oracle.cx(index, inputs_count)
CXLoop(s, n) == [k \in 1..Len(s) |-> Gate("cx", <<k - 1, n>>, <<>>)]

\* faulty variant of BalancedDraws: the draw starts at 0
BalancedDrawsFromZero(n) == Randint(0, Pow2(n))

\* the draw of give_a_balanced_oracle
BalancedDraws(n) == Randint(1, Pow2(n))

\* give_a_balanced_oracle(n) once the draw r is made
BalancedOracle(n, r) ==
    LET bits   == Format(r, n)
        oracle == [QuantumCircuit(n + 1, n) EXCEPT
                     !.data = XLoop(bits) \o CXLoop(bits, n) \o XLoop(bits)]
    IN  ToInstruction(oracle, "BalancedOracle")

\* the draw of give_a_constant_oracle
ConstantDraws == Randint(0, 2)

\* give_a_constant_oracle(n) once the coin is drawn
ConstantOracle(n, coin) ==
    LET oracle == QuantumCircuit(n + 1, 0)
    IN  ToInstruction(
            IF coin = 1 THEN AppendOp(oracle, Gate("x", <<n>>, <<>>)) ELSE oracle,
            "ConstantOracle")

----------------------------------------------------------------------------
(* _construct_the_circuit *)

\* faulty variant of InputLength: the ancilla counted as an input
InputLengthAllWires(ob) == ob.num_qubits

InputLength(ob) == ob.num_qubits - 1

\* for qubit in range(input_length): _circuit.h(qubit)
HadamardLoop(input_length) ==
    [k \in 1..input_length |-> Gate("h", <<k - 1>>, <<>>)]

\* faulty variant of AncillaStage: the ancilla is not flipped first
AncillaStageNoFlip(input_length) ==
    << Gate("h", <<input_length>>, <<>>),
       Gate("barrier", Range(input_length + 1), <<>>) >>

\* _circuit.x(input_length); _circuit.h(input_length); _circuit.barrier()
AncillaStage(input_length) ==
    << Gate("x", <<input_length>>, <<>>),
       Gate("h", <<input_length>>, <<>>),
       Gate("barrier", Range(input_length + 1), <<>>) >>

\* _circuit.append(oracle_block, range(num_qubits), range(num_clbits));
\* _circuit.barrier()
OracleStage(ob) ==
    << [name |-> ob.name, qubits |-> Range(ob.num_qubits),
        clbits |-> Range(ob.num_clbits), definition |-> ob.definition],
       Gate("barrier", Range(ob.num_qubits), <<>>) >>

\* faulty variant of MeasureLoop: classical bits in the opposite order
MeasureLoopReversed(input_length) ==
    [k \in 1..input_length |-> Gate("measure", <<k - 1>>, <<input_length - k>>)]

\* for qubit in range(input_length): _circuit.measure(qubit, qubit)
MeasureLoop(input_length) ==
    [k \in 1..input_length |-> Gate("measure", <<k - 1>>, <<k - 1>>)]

\* faulty variant of ConstructTheCircuit: no Hadamard gates after the oracle
ConstructTheCircuitNoSecondHadamard(ob) ==
    LET input_length == InputLength(ob)
    IN  [QuantumCircuit(input_length + 1, input_length) EXCEPT
           !.data = HadamardLoop(input_length)
                    \o AncillaStage(input_length)
                    \o OracleStage(ob)
                    \o <<Gate("barrier", Range(input_length + 1), <<>>)>>
                    \o MeasureLoop(input_length)]

ConstructTheCircuit(ob) ==
    LET input_length == InputLength(ob)
    IN  [QuantumCircuit(input_length + 1, input_length) EXCEPT
           !.data = HadamardLoop(input_length)
                    \o AncillaStage(input_length)
                    \o OracleStage(ob)
                    \o HadamardLoop(input_length)
                    \o <<Gate("barrier", Range(input_length + 1), <<>>)>>
                    \o MeasureLoop(input_length)]

----------------------------------------------------------------------------
(* Ideal execution.  The state of nq wires is a function from the basis    *)
(* states 0 .. 2^nq - 1 (bit q of the number is wire q) to an integer      *)
(* amplitude: every Hadamard gate is applied without its factor 1/sqrt(2), *)
(* which scales all amplitudes alike and leaves unchanged which outcomes   *)
(* have probability zero.                                                  *)

Bit(b, q) == (b \div Pow2(q)) % 2

Flip(b, q) == IF Bit(b, q) = 0 THEN b + Pow2(q) ELSE b - Pow2(q)

\* the classical action of the reversible gates x and cx on a basis state
Permute(name, q, b) ==
    CASE name = "x"  -> Flip(b, q[1])
      [] name = "cx" -> IF Bit(b, q[1]) = 1 /\ q[1] # q[2] THEN Flip(b, q[2]) ELSE b
      [] OTHER       -> b

\* one primitive gate on the wires q applied to the state psi
ApplyGate(name, q, psi) ==
    CASE name = "h" ->
            [b \in DOMAIN psi |->
                IF Bit(b, q[1]) = 0 THEN psi[b] + psi[Flip(b, q[1])]
                ELSE psi[Flip(b, q[1])] - psi[b]]
      [] name \in {"x", "cx"} ->
            \* both are involutions: the amplitude of b comes from its image
            [b \in DOMAIN psi |-> psi[Permute(name, q, b)]]
      [] OTHER -> psi      \* barrier; measure is read out at the end

Primitive == {"h", "x", "cx", "barrier", "measure"}

\* the operations ops[i..], whose wires are positions of qargs, applied in order
RECURSIVE Evolve(_, _, _, _)
Evolve(ops, i, qargs, psi) ==
    IF i > Len(ops) THEN psi
    ELSE LET op == ops[i]
             q  == [k \in 1..Len(op.qubits) |-> qargs[op.qubits[k] + 1]]
         IN  Evolve(ops, i + 1, qargs,
                    IF op.name \in Primitive THEN ApplyGate(op.name, q, psi)
                    ELSE Evolve(op.definition, 1, q, psi))

\* all wires start in |0>
FinalState(c) ==
    Evolve(c.data, 1, Range(c.num_qubits),
           [b \in 0..(Pow2(c.num_qubits) - 1) |-> IF b = 0 THEN 1 ELSE 0])

\* the wire measured into classical bit cb, or -1 when none is
MeasuredWire(c, cb) ==
    LET ms == {i \in 1..Len(c.data) :
                 c.data[i].name = "measure" /\ c.data[i].clbits = <<cb>>}
    IN  IF ms = {} THEN -1
        ELSE c.data[CHOOSE i \in ms : \A j \in ms : j <= i].qubits[1]

\* the key get_counts gives to basis state b: classical bit 0 is the LAST
\* character; a classical bit that was never written reads "0"
KeyOf(c, b) ==
    [j \in 1..c.num_clbits |->
        LET w == MeasuredWire(c, c.num_clbits - j)
        IN  IF w >= 0 /\ Bit(b, w) = 1 THEN "1" ELSE "0"]

\* the outcomes of non-zero probability
Support(c) ==
    LET psi == FinalState(c)
    IN  {KeyOf(c, b) : b \in {x \in DOMAIN psi : psi[x] # 0}}

\* the counts of the samples drawn in the shots
Counts(samples) ==
    [k \in {samples[i] : i \in DOMAIN samples} |->
        Cardinality({i \in DOMAIN samples : samples[i] = k})]

\* get_counts() of an ideal run: every shot draws one outcome of non-zero
\* probability
IdealCounts(c) == {Counts(samples) : samples \in [1..Shots -> Support(c)]}

----------------------------------------------------------------------------
(* The decision rule of simulate *)

\* faulty variant of Classify: one "0" per wire, the ancilla included
ClassifyAllWires(c, counts) ==
    IF Zeros(c.num_qubits) \in DOMAIN counts THEN "Constant" ELSE "Balanced"

Classify(c, counts) ==
    IF Zeros(c.num_qubits - 1) \in DOMAIN counts THEN "Constant" ELSE "Balanced"

----------------------------------------------------------------------------
(* The script: prompt, build the oracle, simulate *)

\* the numbers typed at the first prompt: 0 stands for the counts below 1
InputsRange == 0..MaxN

Init ==
    /\ pc = "start"
    /\ inputs_count = 0
    /\ oracle_type = ""
    /\ random_number = 0
    /\ inputs = <<>>
    /\ oracle_block = NoInstruction
    /\ circuit = QuantumCircuit(0, 0)
    /\ answer = <<>>
    /\ result = ""

\* oracle type "balanced" or "b": give_a_balanced_oracle(inputs_count).  With
\* no number to draw (inputs_count = 0) numpy raises and the script ends.
GiveABalancedOracle ==
    /\ pc = "start"
    /\ \E n \in InputsRange, token \in {"balanced", "b"} :
          /\ inputs_count' = n
          /\ oracle_type' = token
          /\ IF BalancedDraws(n) = {}
             THEN /\ pc' = "failed"
                  /\ UNCHANGED <<random_number, inputs, oracle_block>>
             ELSE \E r \in BalancedDraws(n) :
                     /\ random_number' = r
                     /\ inputs' = Format(r, n)
                     /\ oracle_block' = BalancedOracle(n, r)
                     /\ pc' = "oracle"
    /\ UNCHANGED <<circuit, answer, result>>

\* oracle type "constant" or "c": give_a_constant_oracle(inputs_count); the
\* coin is kept in random_number
GiveAConstantOracle ==
    /\ pc = "start"
    /\ \E n \in InputsRange, token \in {"constant", "c"}, coin \in ConstantDraws :
          /\ inputs_count' = n
          /\ oracle_type' = token
          /\ random_number' = coin
          /\ oracle_block' = ConstantOracle(n, coin)
          /\ pc' = "oracle"
    /\ UNCHANGED <<inputs, circuit, answer, result>>

\* any other token: "Invalid oracle type." and exit(1)
InvalidOracleType ==
    /\ pc = "start"
    /\ \E n \in InputsRange :
          /\ inputs_count' = n
          /\ oracle_type' = "other"
          /\ pc' = "exit1"
    /\ UNCHANGED <<random_number, inputs, oracle_block, circuit, answer, result>>

\* DJAlgorithm.simulate(block_to_test): build the circuit, run it, decide.
\* A circuit without classical bits has no counts to report: whether the
\* backend then raises or reports the empty key is left open.
Simulate ==
    /\ pc = "oracle"
    /\ LET c == ConstructTheCircuit(oracle_block)
       IN  /\ circuit' = c
           /\ \/ /\ c.num_clbits = 0
                 /\ pc' = "failed"
                 /\ UNCHANGED <<answer, result>>
              \/ \E counts \in IdealCounts(c) :
                    /\ answer' = counts
                    /\ result' = Classify(c, counts)
                    /\ pc' = "done"
    /\ UNCHANGED <<inputs_count, oracle_type, random_number, inputs, oracle_block>>

Next == GiveABalancedOracle \/ GiveAConstantOracle \/ InvalidOracleType \/ Simulate

Spec == Init /\ [][Next]_vars

----------------------------------------------------------------------------
(* The decision rule alone, on the counts any backend may report *)

AllKeys(n) == [1..n -> {"0", "1"}]

RECURSIVE SubsetsUpTo(_, _)
SubsetsUpTo(S, k) ==
    IF k = 0 THEN {{}}
    ELSE LET P == SubsetsUpTo(S, k - 1)
         IN  P \cup {p \cup {x} : p \in P, x \in S}

\* the distributions over n-bit keys with at most MaxKeys keys, the empty one
\* included, every count being 1 or Shots
Distributions(n) ==
    UNION {[K -> {1, Shots}] : K \in SubsetsUpTo(AllKeys(n), MaxKeys)}

ClassifyInit ==
    /\ pc = "classify"
    /\ inputs_count \in 1..MaxN
    /\ oracle_type = "constant"
    /\ random_number \in ConstantDraws
    /\ inputs = <<>>
    /\ oracle_block = ConstantOracle(inputs_count, random_number)
    /\ circuit = ConstructTheCircuit(oracle_block)
    /\ answer \in Distributions(inputs_count)
    /\ result = ""

\* lines 28-31 of simulate on the counts at hand
ClassifyStep ==
    /\ pc = "classify"
    /\ result' = Classify(circuit, answer)
    /\ pc' = "classified"
    /\ UNCHANGED <<inputs_count, oracle_type, random_number, inputs, oracle_block,
                   circuit, answer>>

SpecClassify == ClassifyInit /\ [][ClassifyStep]_vars

----------------------------------------------------------------------------
(* Properties *)

BalancedBuilt == pc \in {"oracle", "done"} /\ oracle_block.name = "BalancedOracle"

\* the n-bit string of zeros, character by character
IsAllZero(key, n) == Len(key) = n /\ \A i \in 1..n : key[i] = "0"

\* the gates ops[i..] of an oracle applied to the classical basis state b
RECURSIVE ClassicalRun(_, _, _)
ClassicalRun(ops, i, b) ==
    IF i > Len(ops) THEN b
    ELSE ClassicalRun(ops, i + 1, Permute(ops[i].name, ops[i].qubits, b))

\* the positions of the oracle's definition holding gate g
Positions(g) ==
    {k \in 1..Len(oracle_block.definition) : oracle_block.definition[k] = g}

\* C1: a balanced oracle over n >= 1 inputs, whatever non-zero mask was drawn,
\* run ideally through the constructed circuit is judged Balanced, and the
\* all-zero n-bit string is not among the outcomes.
C1_BalancedVerdict ==
    (pc = "done" /\ oracle_block.name = "BalancedOracle" /\ inputs_count >= 1)
        => /\ result = "Balanced"
           /\ \A key \in DOMAIN answer : ~IsAllZero(key, inputs_count)

C1_Witness ==
    /\ pc = "done"
    /\ oracle_block.name = "BalancedOracle"
    /\ inputs_count = 3
    /\ random_number = 5
    /\ result = "Balanced"

\* C2: a constant oracle over n >= 1 inputs run ideally through the
\* constructed circuit is judged Constant for both outcomes of the coin.
C2_ConstantVerdict ==
    (pc = "done" /\ oracle_block.name = "ConstantOracle" /\ inputs_count >= 1)
        => /\ result = "Constant"
           /\ \E key \in DOMAIN answer : IsAllZero(key, inputs_count)

C2_Witness ==
    /\ pc = "done"
    /\ oracle_block.name = "ConstantOracle"
    /\ inputs_count = 2
    /\ random_number = 1
    /\ Len(oracle_block.definition) = 1
    /\ result = "Constant"

\* C3: the gates of a balanced oracle map the classical input x with ancilla
\* a to ancilla a XOR f(x), where f is 0 on exactly 2^(n-1) of the 2^n inputs
\* and 1 on the other 2^(n-1).
C3_OracleIsBalanced ==
    (BalancedBuilt /\ inputs_count >= 1) =>
        LET n    == inputs_count
            X    == 0..(Pow2(n) - 1)
            f(x) == Bit(ClassicalRun(oracle_block.definition, 1, x), n)
        IN  /\ \A x \in X, a \in {0, 1} :
                  Bit(ClassicalRun(oracle_block.definition, 1, x + a * Pow2(n)), n)
                      = (a + f(x)) % 2
            /\ Cardinality({x \in X : f(x) = 0}) = Pow2(n - 1)
            /\ Cardinality({x \in X : f(x) = 1}) = Pow2(n - 1)

C3_Witness ==
    /\ BalancedBuilt
    /\ inputs_count = 3
    /\ random_number = 6
    /\ Bit(ClassicalRun(oracle_block.definition, 1, 1), 3) = 1
    /\ Bit(ClassicalRun(oracle_block.definition, 1, 3), 3) = 0

\* C4: the decision rule answers Constant whenever the all-zero n-bit string
\* is a key of the counts, whatever its count and the other keys, and
\* Balanced for every non-empty distribution without that key.
C4_DecisionRule ==
    pc = "classified" =>
        /\ (\E key \in DOMAIN answer : IsAllZero(key, inputs_count))
              => result = "Constant"
        /\ (DOMAIN answer # {}
            /\ \A key \in DOMAIN answer : ~IsAllZero(key, inputs_count))
              => result = "Balanced"

C4_Witness ==
    /\ pc = "classified"
    /\ inputs_count = 2
    /\ DOMAIN answer = {<<"0", "0">>, <<"1", "0">>}
    /\ answer[<<"0", "0">>] = 1
    /\ answer[<<"1", "0">>] = Shots
    /\ result = "Constant"

\* C5: classifying an empty outcome distribution fails and gives no verdict.
C5_EmptyDistributionRejected ==
    (pc = "classified" /\ DOMAIN answer = {})
        => result \notin {"Constant", "Balanced"}

\* C6: both oracle builders fail for n < 1 and return no oracle.
C6_NonPositiveCountRejected ==
    (pc # "start" /\ inputs_count < 1) => oracle_block = NoInstruction

\* C7: the mask drawn for a balanced oracle lies in [1, 2^n - 1], and its
\* encoding has exactly n characters, at least one of them "1".
C7_MaskInRange ==
    BalancedBuilt =>
        /\ inputs_count >= 1
        /\ random_number >= 1
        /\ random_number <= Pow2(inputs_count) - 1
        /\ Len(inputs) = inputs_count
        /\ \E i \in 1..Len(inputs) : inputs[i] = "1"

C7_Witness ==
    /\ BalancedBuilt
    /\ inputs_count = 3
    /\ random_number = 7
    /\ inputs = <<"1", "1", "1">>

\* C8: the circuit built around a valid oracle over n+1 wires has n+1 wires,
\* n of them input wires as in the oracle, and exactly n classical bits.
C8_StructurePreserved ==
    (pc = "done" /\ inputs_count >= 1) =>
        /\ oracle_block.num_qubits = inputs_count + 1
        /\ circuit.num_qubits = inputs_count + 1
        /\ circuit.num_qubits - 1 = oracle_block.num_qubits - 1
        /\ circuit.num_clbits = oracle_block.num_qubits - 1

C8_Witness ==
    /\ pc = "done"
    /\ inputs_count = 3
    /\ oracle_block.name = "BalancedOracle"
    /\ circuit.num_qubits = 4
    /\ circuit.num_clbits = 3

\* C9: the operations of the constructed circuit come in this order: h on
\* each input wire; x then h on the ancilla; barrier; the oracle on wires
\* 0..n; barrier; h on each input wire; barrier; measure of input wire i into
\* classical bit i.  No measure precedes the last barrier and the ancilla is
\* never measured.
C9_StageOrder ==
    (pc = "done" /\ inputs_count >= 1) =>
        LET n == inputs_count
            d == circuit.data
        IN  /\ Len(d) = 3 * n + 6
            /\ \A i \in 1..n : d[i].name = "h" /\ d[i].qubits = <<i - 1>>
            /\ d[n + 1].name = "x" /\ d[n + 1].qubits = <<n>>
            /\ d[n + 2].name = "h" /\ d[n + 2].qubits = <<n>>
            /\ d[n + 3].name = "barrier"
            /\ d[n + 4].name = oracle_block.name
            /\ d[n + 4].definition = oracle_block.definition
            /\ d[n + 4].qubits = [k \in 1..(n + 1) |-> k - 1]
            /\ d[n + 5].name = "barrier"
            /\ \A i \in 1..n : /\ d[n + 5 + i].name = "h"
                               /\ d[n + 5 + i].qubits = <<i - 1>>
            /\ d[2 * n + 6].name = "barrier"
            /\ \A i \in 1..n : /\ d[2 * n + 6 + i].name = "measure"
                               /\ d[2 * n + 6 + i].qubits = <<i - 1>>
                               /\ d[2 * n + 6 + i].clbits = <<i - 1>>
            /\ \A k \in 1..Len(d) :
                  d[k].name = "measure" =>
                      /\ \A j \in 1..Len(d) : d[j].name = "barrier" => j < k
                      /\ d[k].qubits # <<n>>

C9_Witness ==
    /\ pc = "done"
    /\ inputs_count = 2
    /\ oracle_block.name = "BalancedOracle"
    /\ Len(circuit.data) = 12
    /\ circuit.data[12].name = "measure"
    /\ circuit.data[12].qubits = <<1>>

\* C10 as stated: a controlled flip from input wire i to the ancilla is
\* present exactly for the positions i where mask bit i is 1, each bracketed
\* by a flip of wire i before and after; wires with mask bit 0 carry no gate.
C10_ControlledFlipsOnMaskBitsOnly ==
    BalancedBuilt =>
        \A i \in 0..(inputs_count - 1) :
            LET cxs == Positions(Gate("cx", <<i, inputs_count>>, <<>>))
                xs  == Positions(Gate("x", <<i>>, <<>>))
            IN  IF Bit(random_number, i) = 1
                THEN /\ cxs # {}
                     /\ \A c \in cxs : /\ \E k \in xs : k < c
                                       /\ \E k \in xs : k > c
                ELSE cxs = {} /\ xs = {}

\* C10 amended: a controlled flip from input wire i to the ancilla is present
\* exactly once for EVERY input wire i; the flips of wire i, one before and
\* one after that controlled flip, are present exactly for the positions i
\* where mask bit i is 1; the oracle holds no other gate.
C10_FlipsBracketOnMaskBits ==
    BalancedBuilt =>
        /\ \A i \in 0..(inputs_count - 1) :
              LET cxs == Positions(Gate("cx", <<i, inputs_count>>, <<>>))
                  xs  == Positions(Gate("x", <<i>>, <<>>))
              IN  /\ Cardinality(cxs) = 1
                  /\ IF Bit(random_number, i) = 1
                     THEN /\ Cardinality(xs) = 2
                          /\ \A c \in cxs : /\ \E k \in xs : k < c
                                            /\ \E k \in xs : k > c
                     ELSE xs = {}
        /\ \A k \in 1..Len(oracle_block.definition) :
              \E i \in 0..(inputs_count - 1) :
                  oracle_block.definition[k] \in
                      {Gate("cx", <<i, inputs_count>>, <<>>), Gate("x", <<i>>, <<>>)}

C10_Witness ==
    /\ BalancedBuilt
    /\ inputs_count = 3
    /\ random_number = 4
    /\ oracle_block.definition =
          << Gate("x", <<2>>, <<>>),
             Gate("cx", <<0, 3>>, <<>>), Gate("cx", <<1, 3>>, <<>>),
             Gate("cx", <<2, 3>>, <<>>),
             Gate("x", <<2>>, <<>>) >>

====
